---- MODULE Spec2Model ----
(***************************************************************************)
(* Model of the cooperative coroutine runtime of yuOS/M2-libco/co.c:       *)
(* coroutine records, the circular doubly linked ready queue with its      *)
(* cursor co_queue, the scheduler co_yield and the join protocol co_wait.  *)
(* Heap addresses are small integers; a freed address may be handed out    *)
(* again by a later malloc.                                                *)
(***************************************************************************)
EXTENDS Integers, Sequences, FiniteSets, TLC

\* ---------------------------------------------------------------- bounds
MaxCo == 3          \* records a free-form program keeps allocated at a time
MaxRounds == 3      \* co_yield calls the scripted test programs make

NULL == 0
Ids == 1..(MaxCo + 2)   \* heap addresses for struct co (and for CoNode)
MAIN == 1           \* address of the record co_initialize allocates first

CO_STATUS_NEW == "NEW"
CO_STATUS_RUNNING == "RUNNING"
CO_STATUS_WAITING == "WAITING"
CO_STATUS_DEAD == "DEAD"
CoStatus == {CO_STATUS_NEW, CO_STATUS_RUNNING, CO_STATUS_WAITING, CO_STATUS_DEAD}

\* contents of an address that holds no struct co / no CoNode
FreeCo == [func |-> "none", arg |-> NULL, status |-> "FREED", waiter |-> NULL]
FreeNode == [coroutine |-> NULL, prev |-> NULL, next |-> NULL]

VARIABLES
    co,             \* heap of struct co: address -> [func, arg, status, waiter]
    node,           \* heap of CoNode: address -> [coroutine, prev, next]
    co_queue,       \* the queue cursor (address of a CoNode, or NULL)
    current_co,     \* the running coroutine
    pc,             \* where the single native flow is: "app" (application code
                    \* of current_co), "reclaim" (co.c:194, back in co_wait after
                    \* its co_yield returned), "dying" (co.c:272, the entry
                    \* function of current_co has returned), "exit" (exit(0)
                    \* called or main returned, destructors pending), "done",
                    \* "abort" (a failed assertion), "undefined"
    ctx,            \* per record: which call site its jmp_buf context was saved at
    target,         \* per record: the parameter of its pending co_wait call
    apc,            \* per record: position in the entry function's script
    host,           \* which main program is linked with the library
    x,              \* the scripted host's local handle variable
    counter,        \* shared counter of the X/Y scenario
    log,            \* what the scripted entry functions recorded
    calls,          \* history: per record, the arguments its entry was invoked with
    passed,         \* history: per record, the argument handed to co_start
    tdied,          \* history: the records blocked in co_wait whose target has
                    \* become DEAD since they called co_wait
    missed,         \* history: per record c, the records that have stayed
                    \* eligible and were not given control since c last was
    skipped,        \* history: what missed held for the record that was given
                    \* control last, when it was given control
    ub,             \* history: the run has executed undefined behaviour
    rewait          \* history: co_wait has been called on a handle that had
                    \* been waited on before

vars == <<co, node, co_queue, current_co, pc, ctx, target, apc, host, x,
          counter, log, calls, passed, tdied, missed, skipped, ub, rewait>>

Live(c) == co[c].status # "FREED"
LiveSet == {c \in Ids : Live(c)}
NodeSet == {n \in Ids : node[n] # FreeNode}

\* malloc: the lowest free address of the respective pool
Least(S) == CHOOSE m \in S : \A k \in S : m <= k
FreeCoAddrs == Ids \ LiveSet
FreeNodeAddrs == Ids \ NodeSet

\* variant of co_queue_insert: the node is allocated but never linked
co_queue_insert_none(nd, q, n, new_co) ==
    [node |-> [nd EXCEPT ![n] = [coroutine |-> new_co, prev |-> n, next |-> n]],
     co_queue |-> q]

\* ------------------------------------------------------------ ready queue
\* variant of co_queue_insert: the new node is linked just after the cursor
co_queue_insert_after(nd, q, n, new_co) ==
    IF q = NULL
    THEN [node |-> [nd EXCEPT ![n] = [coroutine |-> new_co, prev |-> n, next |-> n]],
          co_queue |-> n]
    ELSE LET s == nd[q].next
             nd1 == [nd EXCEPT ![n] = [coroutine |-> new_co, prev |-> q, next |-> s]]
             nd2 == [nd1 EXCEPT ![nd1[n].prev].next = n]
             nd3 == [nd2 EXCEPT ![nd2[n].next].prev = n]
         IN [node |-> nd3, co_queue |-> q]

\* co_queue_insert: link a new node just before the cursor
co_queue_insert(nd, q, n, new_co) ==
    IF q = NULL
    THEN [node |-> [nd EXCEPT ![n] = [coroutine |-> new_co, prev |-> n, next |-> n]],
          co_queue |-> n]
    ELSE LET p == nd[q].prev
             nd1 == [nd EXCEPT ![n] = [coroutine |-> new_co, prev |-> p, next |-> q]]
             nd2 == [nd1 EXCEPT ![nd1[n].prev].next = n]
             nd3 == [nd2 EXCEPT ![nd2[n].next].prev = n]
         IN [node |-> nd3, co_queue |-> q]

\* variant of co_queue_remove: the node after the cursor is unlinked
co_queue_remove_next(nd, q) ==
    IF q = NULL
    THEN [node |-> nd, co_queue |-> NULL, victim |-> NULL]
    ELSE IF nd[q].next = q
    THEN [node |-> nd, co_queue |-> NULL, victim |-> q]
    ELSE LET v == nd[q].next
             nd1 == [nd EXCEPT ![nd[v].next].prev = q]
             nd2 == [nd1 EXCEPT ![q].next = nd[v].next]
         IN [node |-> nd2, co_queue |-> q, victim |-> v]

\* variant of co_queue_remove: the predecessor keeps pointing at the removed node
co_queue_remove_oneway(nd, q) ==
    IF q = NULL
    THEN [node |-> nd, co_queue |-> NULL, victim |-> NULL]
    ELSE IF nd[q].next = q
    THEN [node |-> nd, co_queue |-> NULL, victim |-> q]
    ELSE LET q1 == nd[q].next
         IN [node |-> [nd EXCEPT ![q1].prev = nd[q].prev],
             co_queue |-> q1, victim |-> q]

\* co_queue_remove: unlink the node under the cursor, cursor moves to its successor
co_queue_remove(nd, q) ==
    IF q = NULL
    THEN [node |-> nd, co_queue |-> NULL, victim |-> NULL]
    ELSE IF nd[q].next = q
    THEN [node |-> nd, co_queue |-> NULL, victim |-> q]
    ELSE LET q1 == nd[q].next
             nd1 == [nd EXCEPT ![q1].prev = nd[q].prev]
             nd2 == [nd1 EXCEPT ![nd1[q1].prev].next = q1]
         IN [node |-> nd2, co_queue |-> q1, victim |-> q]

\* ---------------------------------------------------- application programs
Hosts == {"anyHost", "hostSolo", "hostABC", "hostXY", "hostChain", "hostJoin"}
Funcs == {"anyFn", "yieldOnce", "incX", "waitIncY", "victim", "killer"}

Op(o, f, a, k) == [op |-> o, f |-> f, a |-> a, keep |-> k]

\* the handle the first co_start of a program returns: the record allocated
\* next after the primordial one
FirstHandle == MAIN + 1
Yields == [i \in 1..MaxRounds |-> Op("yield", "none", NULL, FALSE)]

\* the scripted main programs
\*   hostSolo: spawn nothing, yield MaxRounds times and return
\*   hostABC: spawn A, B, C, then yield MaxRounds times and return
\*   hostXY: spawn X, spawn Y with X's handle, yield MaxRounds times and return
\*   hostChain: spawn the victim, then yield for ever
\*   hostJoin: spawn T (yieldOnce), spawn the first killer, co_wait(T), return
HostProg ==
    CASE host = "hostSolo" -> Yields
      [] host = "hostABC" ->
            <<Op("start", "yieldOnce", 1, FALSE), Op("start", "yieldOnce", 2, FALSE),
              Op("start", "yieldOnce", 3, FALSE)>> \o Yields
      [] host = "hostXY" ->
            <<Op("start", "incX", NULL, TRUE), Op("start", "waitIncY", x, FALSE)>>
            \o Yields
      [] host = "hostChain" ->
            <<Op("start", "victim", NULL, FALSE), Op("spin", "none", NULL, FALSE)>>
      [] host = "hostJoin" ->
            <<Op("start", "yieldOnce", NULL, FALSE), Op("start", "killer", NULL, TRUE),
              Op("wait", "none", FirstHandle, FALSE)>>
      [] OTHER -> <<>>

\* the scripted entry functions
\*   yieldOnce: note; co_yield(); note
\*   incX: assert(counter == 0); counter++
\*   waitIncY(h): co_wait(h); assert(counter == 1); counter++
\*   victim: spawn the first killer, then yield for ever
\*   killer(h): spawn the next killer with the own handle (the global x),
\*              co_wait(h) when h is not NULL
FuncProg(f, a) ==
    CASE f = "yieldOnce" ->
            <<Op("note", "none", NULL, FALSE), Op("yield", "none", NULL, FALSE),
              Op("note", "none", NULL, FALSE)>>
      [] f = "incX" -> <<Op("inc", "none", 0, FALSE)>>
      [] f = "waitIncY" -> <<Op("wait", "none", a, FALSE), Op("inc", "none", 1, FALSE)>>
      [] f = "victim" ->
            <<Op("start", "killer", NULL, TRUE), Op("spin", "none", NULL, FALSE)>>
      [] f = "killer" ->
            <<Op("start", "killer", x, TRUE)>>
            \o (IF a = NULL THEN <<>> ELSE <<Op("wait", "none", a, FALSE)>>)
      [] OTHER -> <<>>

\* free-form code may perform any library call at any time, with any handle
\* co_start has returned or may return; the record of the primordial coroutine
\* is not among them (current_co is static, co.c:43)
FreeForm(c) == IF c = MAIN THEN host = "anyHost" ELSE co[c].func = "anyFn"
Script(c) == IF c = MAIN THEN HostProg ELSE FuncProg(co[c].func, co[c].arg)
AtEnd(c) == apc[c] > Len(Script(c))
FreeOps ==
    {Op("start", "anyFn", MAIN, FALSE)}
    \cup {Op("wait", "none", h, FALSE) : h \in Ids \ {MAIN}}
    \cup {Op("yield", "none", NULL, FALSE)}
May(c, o) ==
    IF FreeForm(c) THEN o \in FreeOps ELSE ~AtEnd(c) /\ Script(c)[apc[c]] = o
MayReturn(c) == FreeForm(c) \/ AtEnd(c)
Advance(c) ==
    IF FreeForm(c) \/ Script(c)[apc[c]].op = "spin" THEN apc
    ELSE [apc EXCEPT ![c] = @ + 1]

\* -------------------------------------------------------------- scheduler
\* variant of Eligible: every record that has not finished
EligibleNotDead(cs, c) == cs[c].status # CO_STATUS_DEAD

\* variant of Eligible: only records that never ran
EligibleNewOnly(cs, c) == cs[c].status = CO_STATUS_NEW

\* variant of Eligible: blocked records are selected as well
EligibleWaitingToo(cs, c) ==
    cs[c].status \in {CO_STATUS_RUNNING, CO_STATUS_NEW, CO_STATUS_WAITING}

\* variant of Eligible: the calling coroutine is never selected again
EligibleNotCurrent(cs, c) ==
    c # current_co /\ cs[c].status \in {CO_STATUS_RUNNING, CO_STATUS_NEW}

\* a record the selection loop accepts (co.c:230-231)
Eligible(cs, c) == cs[c].status \in {CO_STATUS_RUNNING, CO_STATUS_NEW}

\* variant of the selection loop: the node the scan started from is not examined
RECURSIVE ScanOthers(_, _, _, _)
ScanOthers(cs, nd, q, start_node) ==
    LET n == nd[q].next
    IN IF n = start_node THEN [co_queue |-> n, found |-> FALSE]
       ELSE IF cs[nd[n].coroutine].status \in {CO_STATUS_RUNNING, CO_STATUS_NEW}
       THEN [co_queue |-> n, found |-> TRUE]
       ELSE ScanOthers(cs, nd, n, start_node)

\* variant of the selection loop: the ring is followed through prev
RECURSIVE ScanBack(_, _, _, _)
ScanBack(cs, nd, q, start_node) ==
    LET n == nd[q].prev
    IN IF cs[nd[n].coroutine].status \in {CO_STATUS_RUNNING, CO_STATUS_NEW}
       THEN [co_queue |-> n, found |-> TRUE]
       ELSE IF n = start_node THEN [co_queue |-> n, found |-> FALSE]
       ELSE ScanBack(cs, nd, n, start_node)

\* the selection loop of co_yield (co.c:228-235): advance first, test, stop
\* when the cursor is back at the node it started from
RECURSIVE ScanFrom(_, _, _, _)
ScanFrom(cs, nd, q, start_node) ==
    LET n == nd[q].next
    IN IF Eligible(cs, nd[n].coroutine) THEN [co_queue |-> n, found |-> TRUE]
       ELSE IF n = start_node THEN [co_queue |-> n, found |-> FALSE]
       ELSE ScanFrom(cs, nd, n, start_node)

\* where a longjmp into a saved context lands
ResumePoint(k) ==
    CASE k = "yield" -> "app"
      [] k = "wait" -> "reclaim"
      [] OTHER -> "undefined"

\* variant of EntryArg: the entry function is started without its argument
EntryArgNone(r) == NULL

\* the argument the first-run transfer hands to the entry function (co.c:254-258)
EntryArg(r) == r.arg

\* variant of Started: the status of a record run for the first time stays NEW
StartedStillNew(cs, c) == cs

\* a NEW record is about to run its entry function (co.c:251)
Started(cs, c) == [cs EXCEPT ![c].status = CO_STATUS_RUNNING]

\* variant of Selected: control goes to the record of the node after the cursor
SelectedNext(nd, q) == nd[nd[q].next].coroutine

\* the record control is transferred to: that of the node the scan stopped on
\* (co.c:243)
Selected(nd, q) == nd[q].coroutine

\* co_yield after setjmp returned 0 (co.c:223-273): select, then exit, longjmp or
\* first run. cs, cx, ap: records, contexts and script positions as the caller
\* left them.
Dispatch(cs, cx, ap) ==
    LET s == ScanFrom(cs, node, co_queue, co_queue)
        c == Selected(node, s.co_queue)
    IN /\ co_queue' = s.co_queue
       /\ IF ~s.found
          THEN /\ pc' = "exit"
               /\ co' = cs /\ ctx' = cx /\ apc' = ap
               /\ UNCHANGED <<current_co, calls>>
          ELSE /\ current_co' = c
               /\ CASE cs[c].status = CO_STATUS_RUNNING ->
                         /\ pc' = ResumePoint(cx[c])
                         /\ co' = cs
                         /\ ctx' = [cx EXCEPT ![c] = "none"]
                         /\ apc' = ap
                         /\ UNCHANGED calls
                    [] cs[c].status = CO_STATUS_NEW ->
                         /\ pc' = "app"
                         /\ co' = Started(cs, c)
                         /\ calls' = [calls EXCEPT ![c] = Append(@, EntryArg(cs[c]))]
                         /\ ctx' = cx
                         /\ apc' = [ap EXCEPT ![c] = 1]
                    [] OTHER ->
                         /\ pc' = "undefined"
                         /\ co' = cs /\ ctx' = cx /\ apc' = ap
                         /\ UNCHANGED calls

\* variant of MustBlock: co_wait blocks whatever the target's status
MustBlockAlways(cs, h) == TRUE

\* variant of Suspend: the caller is registered in its own record
SuspendOnSelf(cs, h, c) == [cs EXCEPT ![c].waiter = c, ![c].status = CO_STATUS_WAITING]

\* variant of Suspend: the caller is registered but its status is left alone
SuspendNoStatus(cs, h, c) == [cs EXCEPT ![h].waiter = c]

\* variant of MarkDead: a returned entry function leaves the status alone
MarkDeadNot(cs, c) == cs

\* co_wait blocks when the target has not finished (co.c:185)
MustBlock(cs, h) == cs[h].status # CO_STATUS_DEAD

\* co_wait registers the caller and blocks it (co.c:187-188)
Suspend(cs, h, c) == [cs EXCEPT ![h].waiter = c, ![c].status = CO_STATUS_WAITING]

\* the entry function of c has returned (co.c:264)
MarkDead(cs, c) == [cs EXCEPT ![c].status = CO_STATUS_DEAD]

\* variant of Wake: every other record is made RUNNING, whatever its status
WakeEveryone(cs, c) ==
    [d \in Ids |-> IF d # c /\ cs[d].status # "FREED"
                   THEN [cs[d] EXCEPT !.status = CO_STATUS_RUNNING] ELSE cs[d]]

\* variant of Wake: every WAITING record is made RUNNING
WakeAll(cs, c) ==
    [d \in Ids |-> IF cs[d].status = CO_STATUS_WAITING
                   THEN [cs[d] EXCEPT !.status = CO_STATUS_RUNNING] ELSE cs[d]]

\* variant of Wake: the waiter is left as it is
WakeNot(cs, c) == cs

\* variant of Wake: the waiter is marked DEAD
WakeAsDead(cs, c) ==
    LET w == cs[c].waiter
    IN IF w # NULL /\ cs[w].status # "FREED"
       THEN [cs EXCEPT ![w].status = CO_STATUS_DEAD] ELSE cs

\* wake the registered waiter of c, if any (co.c:267-269); a waiter whose record
\* has been freed is a write into freed memory
Wake(cs, c) ==
    LET w == cs[c].waiter
    IN IF w # NULL /\ cs[w].status # "FREED"
       THEN [cs EXCEPT ![w].status = CO_STATUS_RUNNING] ELSE cs

\* variant of FindFrom: the search loop leaves the cursor where it was
FindFromStay(nd, n, start_node, h) == start_node

\* the search loop of co_wait (co.c:195-204): the node of h, or the cursor unmoved
RECURSIVE FindFrom(_, _, _, _)
FindFrom(nd, n, start_node, h) ==
    IF nd[n].coroutine = h THEN n
    ELSE IF nd[n].next = start_node THEN start_node
    ELSE FindFrom(nd, nd[n].next, start_node, h)

\* reclamation (co.c:194-212): move the cursor to h's node, free h, unlink and
\* free the node; the assertion aborts when the cursor's node is not h's
Reclaim(h) ==
    LET q == IF co_queue # NULL THEN FindFrom(node, co_queue, co_queue, h) ELSE NULL
    IN IF q = NULL \/ node[q].coroutine # h
       THEN /\ pc' = "abort"
            /\ UNCHANGED <<co, node, co_queue, ctx, target, calls, passed>>
       ELSE LET r == co_queue_remove(node, q)
            IN /\ pc' = "app"
               /\ co' = [co EXCEPT ![h] = FreeCo]
               /\ node' = [r.node EXCEPT ![r.victim] = FreeNode]
               /\ co_queue' = r.co_queue
               /\ ctx' = [ctx EXCEPT ![h] = "none"]
               /\ target' = [target EXCEPT ![h] = NULL, ![current_co] = NULL]
               /\ calls' = [calls EXCEPT ![h] = <<>>]
               /\ passed' = [passed EXCEPT ![h] = NULL]

\* ------------------------------------------------------- history variables
\* missed after a step in which control was given to g (NULL: to nobody)
NextMissed(g) ==
    [e \in Ids |->
        IF co'[e].status = "FREED" THEN {}
        ELSE IF e = g THEN {d \in Ids \ {e} : Eligible(co', d)}
        ELSE {d \in missed[e] : d # g /\ Eligible(co', d)}]

\* the record a dispatching step gave control to
Given == IF pc' = "exit" THEN NULL ELSE current_co'

\* the records that stayed eligible since g was last given control and were
\* passed over
\* (a record given control for the first time has had no earlier turn)
NextSkipped(g) ==
    IF g = NULL THEN skipped
    ELSE IF co[g].status = CO_STATUS_NEW THEN {}
    ELSE {d \in missed[g] : Eligible(co', d)}

\* missed after co_start created new_co: the new record has the records ahead of
\* it, those eligible when it was created, the creating coroutine apart
SpawnMissed(new_co) ==
    [NextMissed(NULL) EXCEPT
        ![new_co] = {d \in Ids \ {new_co, current_co} : Eligible(co, d)}]

\* the coroutines that have called co_wait(h) and have not reclaimed h
Waiters(h) == {c \in Ids : Live(c) /\ target[c] = h}

\* ---------------------------------------------------------------- actions
\* the native flow is at p and the run has not left defined behaviour (what a
\* process does after undefined behaviour is not modelled)
At(p) == ~ub /\ pc = p

\* variant of MainRecord: the primordial record is left as co_start made it
MainRecordNew ==
    [func |-> "none", arg |-> NULL, status |-> CO_STATUS_NEW, waiter |-> NULL]

\* the primordial record: co_start("main", NULL, NULL), then RUNNING (co.c:290-291)
MainRecord ==
    [func |-> "none", arg |-> NULL, status |-> CO_STATUS_RUNNING, waiter |-> NULL]

\* co_initialize has run: the primordial record is allocated, RUNNING and current
Init ==
    /\ host \in Hosts
    /\ co = [c \in Ids |-> IF c = MAIN THEN MainRecord ELSE FreeCo]
    /\ node = [n \in Ids |-> IF n = MAIN
                             THEN [coroutine |-> MAIN, prev |-> MAIN, next |-> MAIN]
                             ELSE FreeNode]
    /\ co_queue = MAIN
    /\ current_co = MAIN
    /\ pc = "app"
    /\ ctx = [c \in Ids |-> "none"]
    /\ target = [c \in Ids |-> NULL]
    /\ apc = [c \in Ids |-> 1]
    /\ x = NULL
    /\ counter = 0
    /\ log = <<>>
    /\ calls = [c \in Ids |-> <<>>]
    /\ passed = [c \in Ids |-> NULL]
    /\ tdied = {}
    /\ missed = [c \in Ids |-> {}]
    /\ skipped = {}
    /\ ub = FALSE
    /\ rewait = FALSE

\* variant of NewRecord: the record is created RUNNING
NewRecordRunning(f, a) ==
    [func |-> f, arg |-> a, status |-> CO_STATUS_RUNNING, waiter |-> NULL]

\* the fields co_start gives a new record (co.c:167-171)
NewRecord(f, a) == [func |-> f, arg |-> a, status |-> CO_STATUS_NEW, waiter |-> NULL]

\* co_start (co.c:161-177)
co_start(f, a, k) ==
    /\ At("app")
    /\ UNCHANGED rewait
    /\ May(current_co, Op("start", f, a, k))
    /\ FreeCoAddrs # {} /\ FreeNodeAddrs # {}
    /\ FreeForm(current_co) => Cardinality(LiveSet) < MaxCo
    /\ LET new_co == Least(FreeCoAddrs)
           n == Least(FreeNodeAddrs)
           r == co_queue_insert(node, co_queue, n, new_co)
       IN /\ co' = [co EXCEPT ![new_co] = NewRecord(f, a)]
          /\ node' = r.node
          /\ co_queue' = r.co_queue
          /\ passed' = [passed EXCEPT ![new_co] = a]
          /\ x' = IF k THEN new_co ELSE x
    /\ apc' = Advance(current_co)
    /\ missed' = SpawnMissed(Least(FreeCoAddrs))
    /\ UNCHANGED skipped
    /\ UNCHANGED <<current_co, pc, ctx, target, host, counter, log, calls, tdied, ub>>

\* variant of NoMemOutcome: the failed allocation goes unnoticed
NoMemIgnored == "app"

\* where the flow is after malloc returned NULL: the assertions at co.c:112 and
\* co.c:164 fail
NoMemOutcome == "abort"

\* co_start when malloc fails (co.c:163-164, or co.c:111-112 with the record
\* already allocated and initialised); the scenario programs are run with
\* memory to spare
co_start_nomem(f, a, k) ==
    /\ At("app")
    /\ UNCHANGED rewait
    /\ FreeForm(current_co)
    /\ May(current_co, Op("start", f, a, k))
    /\ Cardinality(LiveSet) < MaxCo
    /\ \E first \in BOOLEAN :
         IF first THEN UNCHANGED co
         ELSE co' = [co EXCEPT ![Least(FreeCoAddrs)] = NewRecord(f, a)]
    /\ pc' = NoMemOutcome
    /\ UNCHANGED <<node, co_queue, current_co, ctx, target, apc, host, x, counter,
                   log, calls, passed, tdied, missed, skipped, ub>>

\* co_yield called by application code (co.c:218-282)
co_yield ==
    /\ At("app")
    /\ UNCHANGED rewait
    /\ \/ May(current_co, Op("yield", "none", NULL, FALSE))
       \/ May(current_co, Op("spin", "none", NULL, FALSE))
    /\ Dispatch(co, [ctx EXCEPT ![current_co] = "yield"], Advance(current_co))
    /\ ub' = (ub \/ pc' = "undefined")
    /\ missed' = NextMissed(Given)
    /\ skipped' = NextSkipped(Given)
    /\ UNCHANGED <<node, target, host, x, counter, log, passed, tdied>>

\* co_wait on an allocated record (co.c:183-213), up to its co_yield call when
\* the target is not DEAD, whole when it is
co_wait(h) ==
    /\ At("app")
    /\ rewait' = (rewait \/ Waiters(h) # {})
    /\ May(current_co, Op("wait", "none", h, FALSE))
    /\ Live(h)
    /\ IF MustBlock(co, h)
       THEN /\ Dispatch(Suspend(co, h, current_co),
                        [ctx EXCEPT ![current_co] = "wait"], Advance(current_co))
            /\ target' = [target EXCEPT ![current_co] = h]
            /\ tdied' = tdied \ {current_co}
            /\ ub' = (ub \/ pc' = "undefined")
            /\ missed' = NextMissed(Given)
            /\ skipped' = NextSkipped(Given)
            /\ UNCHANGED <<node, passed>>
       ELSE /\ Reclaim(h)
            /\ apc' = Advance(current_co)
            /\ tdied' = tdied \ {h}
            /\ missed' = NextMissed(NULL)
            /\ UNCHANGED skipped
            /\ UNCHANGED <<current_co, ub>>
    /\ UNCHANGED <<host, x, counter, log>>

\* co_wait on an address that holds no record (never allocated or already freed):
\* the status read is a read of freed memory and may yield anything
co_wait_freed(h) ==
    /\ At("app")
    /\ rewait' = TRUE
    /\ May(current_co, Op("wait", "none", h, FALSE))
    /\ ~Live(h)
    /\ ub' = TRUE
    /\ \E dead \in BOOLEAN :
         IF dead
         THEN /\ Reclaim(h)
              /\ apc' = Advance(current_co)
              /\ missed' = NextMissed(NULL)
              /\ UNCHANGED skipped
              /\ UNCHANGED current_co
         ELSE /\ Dispatch([co EXCEPT ![current_co].status = CO_STATUS_WAITING],
                          [ctx EXCEPT ![current_co] = "wait"], Advance(current_co))
              /\ target' = [target EXCEPT ![current_co] = h]
              /\ missed' = NextMissed(Given)
              /\ skipped' = NextSkipped(Given)
              /\ UNCHANGED <<node, passed>>
    /\ UNCHANGED <<host, x, counter, log, tdied>>

\* co_wait resumed after its co_yield returned (co.c:194-212); freeing a record
\* that is not DEAD (a stale handle whose address was handed out again) leaves
\* defined behaviour: that coroutine's stack is gone
co_wait_resume ==
    /\ At("reclaim")
    /\ UNCHANGED rewait
    /\ Reclaim(target[current_co])
    /\ ub' = (pc' = "app" /\ co[target[current_co]].status # CO_STATUS_DEAD)
    /\ tdied' = tdied \ {current_co, target[current_co]}
    /\ missed' = NextMissed(NULL)
    /\ UNCHANGED skipped
    /\ UNCHANGED <<current_co, apc, host, x, counter, log>>

\* an entry function returns into co_yield (co.c:260-269)
entry_return ==
    /\ At("app")
    /\ UNCHANGED rewait
    /\ current_co # MAIN
    /\ MayReturn(current_co)
    /\ co' = Wake(MarkDead(co, current_co), current_co)
    /\ pc' = "dying"
    /\ tdied' = tdied \cup {c \in Ids : ctx[c] = "wait" /\ target[c] = current_co}
    /\ ub' = (co[current_co].waiter # NULL /\ ~Live(co[current_co].waiter))
    /\ missed' = NextMissed(NULL)
    /\ UNCHANGED skipped
    /\ UNCHANGED <<node, co_queue, current_co, ctx, target, apc, host, x, counter,
                   log, calls, passed>>

\* the DEAD coroutine calls co_yield to hand control on (co.c:272)
co_yield_dead ==
    /\ At("dying")
    /\ UNCHANGED rewait
    /\ Dispatch(co, [ctx EXCEPT ![current_co] = "dead"], apc)
    /\ ub' = (ub \/ pc' = "undefined")
    /\ missed' = NextMissed(Given)
    /\ skipped' = NextSkipped(Given)
    /\ UNCHANGED <<node, target, host, x, counter, log, passed, tdied>>

\* main returns: the process ends through its destructors
main_return ==
    /\ At("app")
    /\ UNCHANGED rewait
    /\ current_co = MAIN
    /\ MayReturn(MAIN)
    /\ pc' = "exit"
    /\ UNCHANGED <<co, node, co_queue, current_co, ctx, target, apc, host, x,
                   counter, log, calls, passed, tdied, missed, skipped, ub>>

\* the loop of co_cleanup (co.c:300-306)
RECURSIVE Sweep(_, _, _)
Sweep(cs, nd, q) ==
    IF q = NULL THEN [co |-> cs, node |-> nd]
    ELSE LET r == co_queue_remove(nd, q)
         IN Sweep([cs EXCEPT ![nd[r.victim].coroutine] = FreeCo],
                  [r.node EXCEPT ![r.victim] = FreeNode], r.co_queue)

\* co_cleanup (co.c:298-307), run by exit(0) and by main returning; the stacks
\* and the history of the freed records go with them. After exit(0) was called
\* by a spawned coroutine the destructor runs on that coroutine's stack, which
\* is part of a record the loop frees (co.c:39, 303): it goes on working in
\* freed memory, and either completes or the process crashes
co_cleanup ==
    /\ At("exit")
    /\ ub' = (current_co # MAIN)
    /\ \E crash \in {FALSE, current_co # MAIN} :
         IF crash
         THEN /\ pc' = "undefined"
              /\ UNCHANGED <<co, node, co_queue, ctx, target, apc, calls, passed,
                             tdied, missed, skipped, rewait>>
         ELSE /\ LET s == Sweep(co, node, co_queue)
                 IN /\ co' = s.co
                    /\ node' = s.node
              /\ co_queue' = NULL
              /\ pc' = "done"
              /\ ctx' = [c \in Ids |-> "none"]
              /\ target' = [c \in Ids |-> NULL]
              /\ apc' = [c \in Ids |-> 1]
              /\ calls' = [c \in Ids |-> <<>>]
              /\ passed' = [c \in Ids |-> NULL]
              /\ tdied' = {}
              /\ missed' = [c \in Ids |-> {}]
              /\ skipped' = {}
              /\ rewait' = FALSE
    /\ UNCHANGED <<current_co, host, x, counter, log>>

\* scripted entry functions: record that this coroutine is running
note ==
    /\ At("app")
    /\ UNCHANGED rewait
    /\ May(current_co, Op("note", "none", NULL, FALSE))
    /\ log' = Append(log, co[current_co].arg)
    /\ apc' = Advance(current_co)
    /\ UNCHANGED <<co, node, co_queue, current_co, pc, ctx, target, host, x,
                   counter, calls, passed, tdied, missed, skipped, ub>>

\* scripted entry functions: assert(counter == expect); counter++
inc(expect) ==
    /\ At("app")
    /\ UNCHANGED rewait
    /\ May(current_co, Op("inc", "none", expect, FALSE))
    /\ IF counter = expect
       THEN /\ counter' = counter + 1
            /\ log' = Append(log, co[current_co].func)
            /\ pc' = "app"
       ELSE /\ pc' = "abort"
            /\ UNCHANGED <<counter, log>>
    /\ apc' = Advance(current_co)
    /\ UNCHANGED <<co, node, co_queue, current_co, ctx, target, host, x,
                   calls, passed, tdied, missed, skipped, ub>>

Next ==
    \/ \E f \in Funcs, a \in {NULL} \cup Ids, k \in BOOLEAN : co_start(f, a, k)
    \/ \E f \in Funcs, a \in {NULL} \cup Ids, k \in BOOLEAN : co_start_nomem(f, a, k)
    \/ co_yield
    \/ \E h \in Ids : co_wait(h)
    \/ \E h \in Ids : co_wait_freed(h)
    \/ co_wait_resume
    \/ entry_return
    \/ co_yield_dead
    \/ main_return
    \/ co_cleanup
    \/ note
    \/ \E e \in 0..1 : inc(e)

Spec == Init /\ [][Next]_vars

\* every flow that is given control goes on to its next library call or return
FairSpec == Spec /\ WF_vars(Next)

\* ------------------------------------------------------------- properties
LiveOf(cs) == {c \in Ids : cs[c].status # "FREED"}

\* the records of the ready queue in next order, read from node n
RECURSIVE WalkN(_, _, _, _)
WalkN(nd, n, start_node, k) ==
    IF k = 0 \/ n = NULL THEN <<>>
    ELSE <<nd[n].coroutine>>
         \o (IF nd[n].next = start_node THEN <<>>
             ELSE WalkN(nd, nd[n].next, start_node, k - 1))
RingOf(nd, q) == WalkN(nd, q, q, Cardinality(Ids))
Without(seq, S) == SelectSeq(seq, LAMBDA c : c \notin S)
InSeq(e, seq) == \E i \in 1..Len(seq) : seq[i] = e

\* a step in which co_yield's scheduling code ran (called by the application,
\* by co_wait or after an entry function returned)
Scheduled ==
    \/ co_yield
    \/ co_yield_dead
    \/ \E h \in Ids : co_wait(h) /\ MustBlock(co, h)

\* C1: each record's entry function has been invoked at most once; for a DEAD
\* record exactly once, with the argument that was passed to co_start
C1_EntryOnceWithSpawnArg ==
    \A c \in Ids :
        Live(c) => /\ Len(calls[c]) <= 1
                   /\ co[c].status = CO_STATUS_DEAD => calls[c] = <<passed[c]>>

\* a DEAD record whose entry ran with its (non-null) spawn argument
C1_Witness ==
    \E c \in Ids : /\ co[c].status = CO_STATUS_DEAD
                   /\ passed[c] # NULL
                   /\ calls[c] = <<passed[c]>>

\* C2: co_wait(h) on a target that is not DEAD leaves the caller WAITING with
\* control transferred away (or the process on its exit path); a blocked caller
\* is RUNNING again, and back in co_wait, only after its target became DEAD
C2_WaitBlocksUntilDead ==
    /\ [][\A h \in Ids :
            (co_wait(h) /\ co[h].status # CO_STATUS_DEAD)
            => /\ co'[current_co].status = CO_STATUS_WAITING
               /\ ctx'[current_co] = "wait"
               /\ current_co' # current_co \/ pc' = "exit"]_vars
    /\ [](\A c \in Ids :
            (ctx[c] = "wait" /\ co[c].status = CO_STATUS_RUNNING) => c \in tdied)
    /\ [](pc = "reclaim" => current_co \in tdied)
    /\ [][\A c \in Ids :
            (c \notin tdied /\ c \in tdied')
            => /\ co[target[c]].status # CO_STATUS_DEAD
               /\ co'[target[c]].status = CO_STATUS_DEAD]_vars

\* a caller that blocked in co_wait has control again, its target having died
C2_Witness ==
    /\ pc = "reclaim"
    /\ current_co \in tdied
    /\ co[target[current_co]].status = CO_STATUS_DEAD

\* C3: co_wait(h) on a DEAD target does not suspend: the caller stays current
\* and RUNNING, saves no context, and no record's waiter changes
C3_WaitOnDeadReturns ==
    [][\A h \in Ids :
         (co_wait(h) /\ co[h].status = CO_STATUS_DEAD)
         => /\ pc' = "app"
            /\ current_co' = current_co
            /\ co'[current_co] = co[current_co]
            /\ co[current_co].status = CO_STATUS_RUNNING
            /\ ctx'[current_co] = ctx[current_co]
            /\ \A r \in Ids \ {h} : co'[r] = co[r]]_vars

\* Y of the X/Y scenario has come back from co_wait(X), X having been DEAD: it
\* is still the current coroutine, in its first turn, and X is reclaimed
C3_Witness ==
    /\ host = "hostXY"
    /\ pc = "app"
    /\ co[current_co].func = "waitIncY"
    /\ apc[current_co] = 2
    /\ co[current_co].status = CO_STATUS_RUNNING
    /\ ~Live(co[current_co].arg)
    /\ \A r \in Ids : co[r].waiter = NULL

ABCOrder == <<1, 2, 3, 1, 2, 3>>
ABCDead == \A c \in Ids \ {MAIN} : Live(c) => co[c].status = CO_STATUS_DEAD

\* C4: A, B, C spawned in that order, each yielding once: they run in the order
\* A, B, C, A, B, C, and when main is back from its second co_yield all three
\* are DEAD
C4_RoundRobinABC ==
    host = "hostABC"
    => /\ Len(log) <= Len(ABCOrder)
       /\ log = SubSeq(ABCOrder, 1, Len(log))
       /\ (current_co = MAIN /\ pc = "app" /\ apc[MAIN] > 5)
          => /\ log = ABCOrder
             /\ Cardinality(LiveSet) = 4
             /\ ABCDead

C4_Witness ==
    /\ host = "hostABC"
    /\ log = ABCOrder
    /\ Cardinality(LiveSet) = 4
    /\ ABCDead
    /\ current_co = MAIN /\ pc = "app"

\* C5: X increments before Y, each once, no assertion fails, and once main is
\* back from its first co_yield the counter is 2 and stays 2
C5_CounterXY ==
    /\ [](host = "hostXY"
          => /\ pc # "abort"
             /\ ~ub
             /\ Len(log) <= 2
             /\ log = SubSeq(<<"incX", "waitIncY">>, 1, Len(log))
             /\ counter = Len(log)
             /\ (current_co = MAIN /\ pc = "app" /\ apc[MAIN] > 3) => counter = 2)
    /\ [][(host = "hostXY" /\ counter = 2) => counter' = 2]_vars

C5_Witness ==
    /\ host = "hostXY"
    /\ counter = 2
    /\ log = <<"incX", "waitIncY">>
    /\ pc = "done"

SpawnedAllDead ==
    /\ LiveSet # {MAIN}
    /\ \A c \in LiveSet \ {MAIN} : co[c].status = CO_STATUS_DEAD

\* C6 as claimed: when every spawned coroutine is DEAD, the next co_yield takes
\* the exit path
C6_ExitWhenSpawnedDead ==
    [][((co_yield \/ co_yield_dead) /\ SpawnedAllDead) => pc' = "exit"]_vars

\* C6 amended: when every spawned coroutine is DEAD, the next co_yield gives
\* control to the primordial coroutine if that is RUNNING and takes the exit
\* path only if it is not; whenever co_yield takes the exit path no record is
\* RUNNING or NEW, and after it no coroutine is given control
C6_MainGoesOnWhenSpawnedDead ==
    /\ [][((co_yield \/ co_yield_dead) /\ SpawnedAllDead)
          => IF co[MAIN].status = CO_STATUS_RUNNING
             THEN pc' \in {"app", "reclaim"} /\ current_co' = MAIN
             ELSE pc' = "exit"]_vars
    /\ [][(Scheduled /\ pc' = "exit") => \A c \in Ids : ~Eligible(co', c)]_vars
    /\ [][pc = "exit" => (pc' \in {"done", "undefined"} /\ current_co' = current_co)]_vars

\* main of the A/B/C scenario is back from a co_yield it made with A, B and C
\* all DEAD
C6_Witness ==
    /\ host = "hostABC"
    /\ ABCDead /\ Cardinality(LiveSet) = 4
    /\ current_co = MAIN /\ pc = "app"
    /\ apc[MAIN] > 6

\* C7 as claimed: co_yield by the primordial coroutine with no other record
\* takes the exit path
C7_SoloYieldExits ==
    [][(co_yield /\ LiveSet = {MAIN}) => pc' = "exit"]_vars

\* C7 amended: co_yield by the primordial coroutine with no other record
\* re-selects it: the call returns, nothing in the runtime has changed and the
\* process has not exited
C7_SoloYieldReturns ==
    [][(co_yield /\ LiveSet = {MAIN})
       => /\ pc' = "app"
          /\ current_co' = MAIN
          /\ co' = co /\ node' = node /\ co_queue' = co_queue
          /\ ctx' = ctx]_vars

\* main of the no-spawn scenario is back from its first co_yield
C7_Witness ==
    /\ host = "hostSolo"
    /\ apc[MAIN] = 2
    /\ pc = "app" /\ current_co = MAIN
    /\ LiveSet = {MAIN}

\* C8: co_start adds exactly one record, NEW and without waiter, to the ready
\* queue and changes nothing else: current coroutine, position of the flow,
\* saved contexts, the existing records, and the order of the existing entries
C8_StartFrame ==
    [][\A f \in Funcs, a \in {NULL} \cup Ids, k \in BOOLEAN :
         co_start(f, a, k)
         => LET new == LiveOf(co') \ LiveOf(co)
            IN /\ Cardinality(new) = 1
               /\ \A c \in new : /\ co'[c].status = CO_STATUS_NEW
                                 /\ co'[c].waiter = NULL
                                 /\ co'[c].func = f /\ co'[c].arg = a
                                 /\ InSeq(c, RingOf(node', co_queue'))
               /\ \A d \in LiveOf(co) : co'[d] = co[d]
               /\ Len(RingOf(node', co_queue')) = Len(RingOf(node, co_queue)) + 1
               /\ Without(RingOf(node', co_queue'), new) = RingOf(node, co_queue)
               /\ current_co' = current_co
               /\ pc' = pc
               /\ ctx' = ctx /\ target' = target]_vars

\* a record just created by a coroutine other than main, in a queue that holds
\* others: NEW, no waiter, never run
C8_Witness ==
    /\ current_co # MAIN
    /\ pc = "app"
    /\ \E c \in Ids : /\ co[c].status = CO_STATUS_NEW
                      /\ co[c].waiter = NULL
                      /\ calls[c] = <<>>
                      /\ node[co_queue].prev # NULL
                      /\ node[node[co_queue].prev].coroutine = c
    /\ Cardinality(LiveSet) >= 3

\* C9: a coroutine suspended in co_yield is given control again, unless the
\* process ends
Yielded(c) == Live(c) /\ ctx[c] = "yield" /\ co[c].status = CO_STATUS_RUNNING
Ended == ub \/ pc \in {"exit", "done", "abort", "undefined"}
C9_YielderRunsAgain ==
    \A c \in Ids : Yielded(c) ~> ((current_co = c /\ pc = "app") \/ Ended)

\* C10: when co_yield gives control to a record, no record that stayed eligible
\* since that record last had control was passed over
C10_StrictRoundRobin == skipped = {}

\* C11: a record is given control for the first time only after every record
\* that was eligible when it was created, and has stayed eligible, has been
\* given control since
C11_NewRunsAfterOlder ==
    [][\A c \in Ids :
         (co[c].status = CO_STATUS_NEW /\ co'[c].status = CO_STATUS_RUNNING
          /\ current_co' = c)
         => \A d \in missed[c] :
               co'[d].status \notin {CO_STATUS_RUNNING, CO_STATUS_NEW}]_vars

\* C12: co_wait on a target whose registered waiter is still WAITING aborts
\* without touching any record, and a coroutine blocked in co_wait is the
\* registered waiter of its target
C12_SecondWaiterFatal ==
    /\ [][\A h \in Ids :
            (/\ co_wait(h)
             /\ co[h].status # CO_STATUS_DEAD
             /\ co[h].waiter # NULL
             /\ co[co[h].waiter].status = CO_STATUS_WAITING)
            => (pc' = "abort" /\ co' = co)]_vars
    /\ [](\A c \in Ids :
            (co[c].status = CO_STATUS_WAITING /\ ctx[c] = "wait" /\ Live(target[c]))
            => co[target[c]].waiter = c)

\* C13: a registered waiter that resumes in co_wait when its target, DEAD when
\* it was woken, has since been reclaimed through another co_wait on the same
\* handle aborts, and frees or unlinks nothing
C13_StaleHandleAborts ==
    [][(co_wait_resume /\ co[target[current_co]].status # CO_STATUS_DEAD)
       => (pc' = "abort" /\ co' = co /\ node' = node)]_vars

\* C14: a failed allocation in co_start aborts the process: no handle is
\* returned, the ready queue is untouched, nothing runs after the abort, and
\* every node of the ready queue refers to an allocated record
C14_NoMemIsFatal ==
    /\ [][\A f \in Funcs, a \in {NULL} \cup Ids, k \in BOOLEAN :
            co_start_nomem(f, a, k)
            => /\ pc' = "abort"
               /\ x' = x /\ apc' = apc /\ current_co' = current_co
               /\ node' = node /\ co_queue' = co_queue]_vars
    /\ [][pc = "abort" => pc' = "abort"]_vars
    /\ [](\A n \in NodeSet : Live(node[n].coroutine))

\* the process has aborted in co_start with the record allocated and its node
\* not: the record is in no node of the ready queue
C14_Witness ==
    /\ pc = "abort"
    /\ \E c \in LiveSet : /\ co[c].status = CO_STATUS_NEW
                          /\ \A n \in NodeSet : node[n].coroutine # c
    /\ \A n \in NodeSet : Live(node[n].coroutine)

Rot(seq, k) == [i \in 1..Len(seq) |-> seq[((i + k - 1) % Len(seq)) + 1]]
SameCycle(s, t) ==
    /\ Len(s) = Len(t)
    /\ Len(s) = 0 \/ \E k \in 0..(Len(s) - 1) : t = Rot(s, k)

\* C15: as long as no handle has been waited on twice, a record that co_wait
\* frees was DEAD, exactly its node leaves the ready queue, the other records
\* keep their fields and their cyclic order; and a waiter that resumes in
\* co_wait finds its target still allocated and DEAD, so no record is freed twice
C15_ReclaimOnlyDeadTarget ==
    /\ [][(~rewait' /\ pc' # "done")
          => \A h \in Ids :
                (Live(h) /\ co'[h].status = "FREED")
                => /\ co[h].status = CO_STATUS_DEAD
                   /\ \A d \in Ids \ {h} : co'[d] = co[d]
                   /\ Cardinality(NodeSet') = Cardinality(NodeSet) - 1
                   /\ \A n \in NodeSet \ NodeSet' : node[n].coroutine = h
                   /\ \A n \in NodeSet' : node'[n].coroutine = node[n].coroutine
                   /\ SameCycle(RingOf(node', co_queue'),
                                Without(RingOf(node, co_queue), {h}))]_vars
    /\ []((pc = "reclaim" /\ ~rewait)
          => co[target[current_co]].status = CO_STATUS_DEAD)

\* Y of the X/Y scenario has reclaimed the DEAD X: main and Y are what is left
\* of the ready queue, in their order, and no handle was waited on twice
C15_Witness ==
    /\ ~rewait /\ ~ub
    /\ host = "hostXY" /\ pc = "app"
    /\ co[current_co].func = "waitIncY" /\ apc[current_co] = 2
    /\ ~Live(co[current_co].arg)
    /\ LiveSet = {MAIN, current_co}
    /\ SameCycle(RingOf(node, co_queue), <<MAIN, current_co>>)

\* the record that the ring order and the statuses cs single out: the first
\* RUNNING or NEW record after the cursor, the cursor's own record last
Pick(cs) ==
    LET o == RingOf(node, node[co_queue].next)
        I == {i \in 1..Len(o) : cs[o[i]].status \in {CO_STATUS_RUNNING, CO_STATUS_NEW}}
    IN IF I = {} THEN NULL ELSE o[Least(I)]

\* what a step that runs the scheduling code with statuses cs must lead to
PickOutcome(cs) ==
    LET c == Pick(cs)
    IN /\ node' = node
       /\ IF c = NULL
          THEN pc' = "exit" /\ current_co' = current_co /\ co' = cs
          ELSE /\ current_co' = c
               /\ node[co_queue'].coroutine = c
               /\ co' = [cs EXCEPT ![c].status = CO_STATUS_RUNNING]
               /\ pc' = IF \/ cs[c].status = CO_STATUS_NEW
                           \/ c = current_co
                           \/ ctx[c] = "yield"
                        THEN "app" ELSE "reclaim"

C17_DeadOnlyByOwnReturn ==
    [][\A c \in Ids :
         (co[c].status # CO_STATUS_DEAD /\ co'[c].status = CO_STATUS_DEAD)
         => /\ entry_return
            /\ c = current_co
            /\ co[c].status = CO_STATUS_RUNNING
            /\ pc = "app" /\ pc' = "dying"]_vars

\* a spawned coroutine's entry function has returned while another record is
\* blocked in co_wait on it: the returned one is DEAD, the waiter is not
C17_Witness ==
    /\ pc = "dying"
    /\ co[current_co].status = CO_STATUS_DEAD
    /\ co[current_co].waiter # NULL
    /\ co[co[current_co].waiter].status = CO_STATUS_RUNNING
    /\ \E d \in Ids \ {current_co} : co[d].status \in {CO_STATUS_NEW, CO_STATUS_RUNNING}

\* C18 as claimed: while application code is executing exactly one record has
\* status RUNNING, the current coroutine
C18_OneRunnable ==
    pc = "app" => \A c \in Ids : (co[c].status = CO_STATUS_RUNNING <=> c = current_co)

\* C18 amended: while application code is executing the current coroutine has
\* status RUNNING; any other record with status RUNNING is one suspended in
\* co_yield or woken in co_wait, with its context saved there
C18_CurrentIsRunnable ==
    pc = "app"
    => /\ co[current_co].status = CO_STATUS_RUNNING
       /\ \A c \in Ids \ {current_co} :
             co[c].status = CO_STATUS_RUNNING => ctx[c] \in {"yield", "wait"}

\* a spawned coroutine is executing while main, suspended in co_yield, and a
\* third record both have status RUNNING
C18_Witness ==
    /\ pc = "app" /\ ~ub
    /\ current_co # MAIN
    /\ co[current_co].status = CO_STATUS_RUNNING
    /\ co[MAIN].status = CO_STATUS_RUNNING /\ ctx[MAIN] = "yield"
    /\ \E d \in Ids \ {current_co, MAIN} :
          co[d].status = CO_STATUS_RUNNING /\ ctx[d] \in {"yield", "wait"}

\* C19 as claimed: a record's waiter field, if set, names a coroutine that is
\* WAITING, blocked in co_wait on that record
C19_WaiterIsWaiting ==
    \A r \in Ids :
        (Live(r) /\ co[r].waiter # NULL)
        => /\ co[co[r].waiter].status = CO_STATUS_WAITING
           /\ ctx[co[r].waiter] = "wait"
           /\ target[co[r].waiter] = r

\* C19 amended: as long as no handle has been waited on twice, the waiter field
\* of a record that is not DEAD, if set, names a coroutine that is WAITING,
\* blocked in co_wait on that record; the field is not cleared when the record
\* dies and wakes the waiter
C19_WaiterOfUnfinishedIsWaiting ==
    \A r \in Ids :
        (~rewait /\ Live(r) /\ co[r].status # CO_STATUS_DEAD /\ co[r].waiter # NULL)
        => /\ co[co[r].waiter].status = CO_STATUS_WAITING
           /\ ctx[co[r].waiter] = "wait"
           /\ target[co[r].waiter] = r

\* main is blocked in co_wait on a spawned coroutine that is executing
C19_Witness ==
    /\ pc = "app" /\ ~ub /\ ~rewait
    /\ current_co # MAIN
    /\ co[current_co].waiter = MAIN
    /\ co[MAIN].status = CO_STATUS_WAITING
    /\ target[MAIN] = current_co

\* C20: every record that co_yield gives control to had status RUNNING or NEW
\* when it was selected; a record that is WAITING or DEAD never becomes the
\* current coroutine
C20_OnlyEligibleSelected ==
    /\ [][(Scheduled /\ pc' # "exit")
          => /\ co[current_co'].status \in {CO_STATUS_RUNNING, CO_STATUS_NEW}
             /\ co'[current_co'].status = CO_STATUS_RUNNING
             /\ pc' \in {"app", "reclaim"}]_vars
    /\ [][\A h \in Ids :
            (co_wait(h) /\ co[h].status # CO_STATUS_DEAD /\ pc' # "exit")
            => current_co' # current_co]_vars
    /\ [][co_yield_dead => (current_co' # current_co \/ pc' = "exit")]_vars
    /\ [][current_co' # current_co
          => co[current_co'].status \in {CO_STATUS_RUNNING, CO_STATUS_NEW}]_vars

\* a record has been given control by a scan that went past a DEAD record and
\* a WAITING one
C20_Witness ==
    /\ pc = "app" /\ ~ub
    /\ co[current_co].status = CO_STATUS_RUNNING
    /\ \E d, w \in Ids \ {current_co} :
          /\ co[d].status = CO_STATUS_DEAD
          /\ co[w].status = CO_STATUS_WAITING
          /\ node[co_queue].coroutine = current_co
          /\ node[node[co_queue].prev].coroutine \in {d, w}

\* the node that holds record c
NodeOf(c) == CHOOSE n \in NodeSet : node[n].coroutine = c

\* the first RUNNING or NEW record after node n in ring order, n's own record last
PickAfter(cs, n) ==
    LET o == RingOf(node, node[n].next)
        I == {i \in 1..Len(o) : cs[o[i]].status \in {CO_STATUS_RUNNING, CO_STATUS_NEW}}
    IN IF I = {} THEN NULL ELSE o[Least(I)]

\* C21: co_yield selects the first RUNNING or NEW record after the calling
\* coroutine's own node, wrapping once
C21_ScanStartsAfterCaller ==
    [][co_yield
       => LET c == PickAfter(co, NodeOf(current_co))
          IN IF c = NULL THEN pc' = "exit" ELSE current_co' = c]_vars

\* C22: when co_yield's scan finds no eligible record and the exit path is
\* taken, every record of the ready queue is DEAD
C22_ExitOnlyWhenAllDead ==
    [][(Scheduled /\ pc' = "exit")
       => \A c \in LiveOf(co') : co'[c].status = CO_STATUS_DEAD]_vars

\* C23: when an entry function returns, its record is marked DEAD and its
\* registered waiter RUNNING before any other coroutine is given control; the
\* scheduler then hands control to another record, and a DEAD record is never
\* given control again
C23_ReturnHandsOver ==
    /\ [][entry_return
          => /\ co'[current_co].status = CO_STATUS_DEAD
             /\ LET w == co[current_co].waiter
                IN (w # NULL /\ Live(w)) => co'[w].status = CO_STATUS_RUNNING
             /\ current_co' = current_co
             /\ pc' = "dying"]_vars
    /\ [][pc = "dying"
          => /\ co_yield_dead
             /\ co[current_co].status = CO_STATUS_DEAD
             /\ pc' = "exit" \/ current_co' # current_co]_vars
    /\ [](pc \in {"app", "reclaim"} => co[current_co].status # CO_STATUS_DEAD)

\* the waiter of a returned coroutine has been given control, the DEAD record is
\* still in the queue
C23_Witness ==
    /\ pc = "reclaim"
    /\ co[target[current_co]].status = CO_STATUS_DEAD
    /\ co[target[current_co]].waiter = current_co

\* C24: the status of a record created by co_start changes only along the
\* lifecycle: NEW to RUNNING when the scheduler selects it for its first run,
\* RUNNING to WAITING by its own co_wait on a target that is not DEAD, WAITING
\* to RUNNING when the target it registered on becomes DEAD, RUNNING to DEAD
\* when its own entry function returns
C24_Lifecycle ==
    [][\A c \in Ids \ {MAIN} :
         (Live(c) /\ co'[c].status \in CoStatus /\ co'[c].status # co[c].status)
         => \/ /\ co[c].status = CO_STATUS_NEW /\ co'[c].status = CO_STATUS_RUNNING
               /\ current_co' = c /\ pc' = "app"
               /\ calls'[c] = Append(calls[c], co[c].arg)
            \/ /\ co[c].status = CO_STATUS_RUNNING /\ co'[c].status = CO_STATUS_WAITING
               /\ c = current_co
               /\ \E h \in Ids : \/ co_wait(h) /\ co[h].status # CO_STATUS_DEAD
                                 \/ co_wait_freed(h)
            \/ /\ co[c].status = CO_STATUS_WAITING /\ co'[c].status = CO_STATUS_RUNNING
               /\ entry_return
               /\ target[c] = current_co
               /\ co'[current_co].status = CO_STATUS_DEAD
            \/ /\ co[c].status = CO_STATUS_RUNNING /\ co'[c].status = CO_STATUS_DEAD
               /\ c = current_co
               /\ entry_return]_vars

\* a spawned record has gone through NEW, RUNNING, WAITING and RUNNING again
\* and is about to reclaim the record it waited for
C24_Witness ==
    /\ pc = "reclaim"
    /\ current_co # MAIN
    /\ co[current_co].status = CO_STATUS_RUNNING
    /\ calls[current_co] # <<>>
    /\ co[target[current_co]].status = CO_STATUS_DEAD

\* C25: while the process runs, the ready queue holds exactly the records that
\* have been created and not reclaimed, each once; a record enters it at
\* co_start and leaves it only when a co_wait on it completes
C25_QueueHoldsLiveRecords ==
    /\ [](pc \notin {"done", "abort"}
          => LET o == RingOf(node, co_queue)
             IN /\ {o[i] : i \in 1..Len(o)} = LiveSet
                /\ Len(o) = Cardinality(LiveSet)
                /\ Cardinality(NodeSet) = Len(o))
    /\ [][\A c \in Ids :
            (~Live(c) /\ co'[c].status \in CoStatus /\ pc' # "abort")
            => /\ \E f \in Funcs, a \in {NULL} \cup Ids, k \in BOOLEAN : co_start(f, a, k)
               /\ InSeq(c, RingOf(node', co_queue'))]_vars
    /\ [][\A c \in Ids :
            (Live(c) /\ co'[c].status = "FREED" /\ pc' # "done")
            => \/ co_wait(c)
               \/ co_wait_resume /\ target[current_co] = c]_vars

\* a record has been reclaimed while a younger one is still in the queue
C25_Witness ==
    /\ pc = "app"
    /\ Cardinality(LiveSet) = 2
    /\ \E c \in LiveSet, d \in FreeCoAddrs : d < c

\* the ready queue read from the node of the primordial record
RingFromMain == RingOf(node, NodeOf(MAIN))

\* C26: the cyclic order of the ready queue is the order of creation, whichever
\* coroutine called co_start. In the chain scenario main creates the victim and
\* the victim and the killers create the killers: read from the primordial
\* record, the victim comes before every killer
C26_RingIsCreationOrder ==
    (host = "hostChain" /\ pc \notin {"done", "abort"})
    => \A i, j \in 1..Len(RingFromMain) :
          (co[RingFromMain[i]].func = "victim" /\ co[RingFromMain[j]].func = "killer")
          => i < j

\* C26 as the code has it: a step that creates a record (a completed co_start)
\* links it immediately before the cursor node and leaves the cursor alone, no
\* step that changes the links changes the cyclic order of the records that
\* stay in the queue (the other steps move the cursor at most), and the ring is in
\* creation order when every record was created by the primordial coroutine
\* before its first co_yield (A, B and C, created with the arguments 1, 2, 3)
C26_InsertedBeforeCursor ==
    /\ [][(LiveOf(co') \ LiveSet # {} /\ pc' # "abort")
          => /\ co_queue' = co_queue
             /\ node'[node'[co_queue].prev].coroutine \in LiveOf(co') \ LiveSet]_vars
    /\ [][(node' # node /\ pc' \notin {"done", "abort"})
          => SameCycle(Without(RingOf(node', co_queue'), LiveOf(co') \ LiveSet),
                       Without(RingOf(node, co_queue), LiveSet \ LiveOf(co')))]_vars
    /\ [](host = "hostABC" /\ pc # "done"
          => \A i, j \in 1..Len(RingFromMain) :
                i < j => co[RingFromMain[i]].arg < co[RingFromMain[j]].arg)

\* the killer that the victim created sits before the victim in the ring
C26_Witness ==
    /\ host = "hostChain"
    /\ pc = "app"
    /\ Len(RingFromMain) = 3
    /\ co[RingFromMain[2]].func = "killer"
    /\ co[RingFromMain[3]].func = "victim"

\* C27: as long as the primordial record is the only one, it is in the ready
\* queue, RUNNING and the current coroutine; so it is before any coroutine is
\* created or run
C27_PrimordialFirst ==
    (pc = "app" /\ LiveSet = {MAIN})
    => /\ co[MAIN].status = CO_STATUS_RUNNING
       /\ current_co = MAIN
       /\ RingOf(node, co_queue) = <<MAIN>>

\* the program is about to make its first library call
C27_Witness ==
    /\ host = "hostABC"
    /\ pc = "app"
    /\ apc[MAIN] = 1
    /\ LiveSet = {MAIN}

\* C28: co_cleanup terminates and has released every record still in the
\* ready queue, whatever its status, leaving the queue empty
C28_CleanupReleasesAll ==
    [][co_cleanup
       => /\ pc' = "done"
          /\ co_queue' = NULL
          /\ LiveOf(co') = {}
          /\ \A n \in Ids : node'[n] = FreeNode]_vars

\* C29: current_co never refers to a record that has been released, and it is
\* cleared once teardown has released the last record
C29_CurrentNeverDangling ==
    /\ current_co = NULL \/ Live(current_co)
    /\ pc = "done" => current_co = NULL

\* C30: when a RUNNING coroutine calls co_yield and no other record is RUNNING
\* or NEW, the caller is selected again: co_yield returns to it, and the current
\* coroutine, every record's status and waiter and the ring are as before
C30_SelfReselect ==
    [][(/\ co_yield
        /\ co[current_co].status = CO_STATUS_RUNNING
        /\ \A d \in LiveSet \ {current_co} : ~Eligible(co, d))
       => /\ pc' = "app"
          /\ current_co' = current_co
          /\ co' = co
          /\ node' = node
          /\ ctx'[current_co] = "none"]_vars

\* main of the X/Y scenario is back from a co_yield it made with Y DEAD and no
\* other record left
C30_Witness ==
    /\ host = "hostXY"
    /\ pc = "app" /\ current_co = MAIN
    /\ counter = 2
    /\ apc[MAIN] >= 5
    /\ \A c \in LiveSet \ {MAIN} : co[c].status = CO_STATUS_DEAD

\* C31: as long as no handle has been waited on twice or after its record was
\* reclaimed, the assertion of co_wait that the cursor is on the target's node
\* (co.c:207) does not fail: co_wait, called on a DEAD target or resumed after
\* its co_yield, reclaims the target
C31_TargetFoundAtReclaim ==
    [][(/\ ~rewait'
        /\ \/ co_wait_resume
           \/ \E h \in Ids : co_wait(h) /\ ~MustBlock(co, h))
       => /\ pc' = "app"
          /\ Cardinality(LiveOf(co')) = Cardinality(LiveSet) - 1]_vars

\* a waiter has resumed and reclaimed its target, and no handle was used twice
C31_Witness ==
    /\ ~rewait
    /\ pc = "app"
    /\ current_co # MAIN
    /\ ctx[current_co] = "none"
    /\ calls[current_co] # <<>>
    /\ \E d \in FreeCoAddrs : d < current_co
    /\ \A c \in LiveSet : co[c].status = CO_STATUS_RUNNING

\* C32: the assertion on the resumed path of co_yield (co.c:277-279) does not
\* fail: a record that co_yield resumes by restoring its context continues in
\* the call in which it saved it, as the current coroutine and RUNNING
C32_ResumedIsCurrentAndRunning ==
    [][(Scheduled /\ pc' # "exit" /\ co[current_co'].status # CO_STATUS_NEW)
       => /\ pc' \in {"app", "reclaim"}
          /\ co'[current_co'].status = CO_STATUS_RUNNING
          /\ ctx'[current_co'] = "none"]_vars

\* the primordial coroutine has been resumed inside co_wait while another
\* record holds a saved context
C32_Witness ==
    /\ pc = "reclaim"
    /\ current_co = MAIN
    /\ co[MAIN].status = CO_STATUS_RUNNING
    /\ \E c \in LiveSet : ctx[c] = "yield"

\* C33: a coroutine blocked in co_wait as the only waiter of a target whose
\* entry function has returned is given control, reclaims the target and
\* returns from co_wait, unless the process ends
WokenWaiter(w) ==
    /\ Live(w) /\ ctx[w] = "wait"
    /\ target[w] # NULL /\ Waiters(target[w]) = {w}
    /\ co[target[w]].status = CO_STATUS_DEAD
    /\ ~rewait
C33_WaiterReturns ==
    \A w \in Ids : WokenWaiter(w) ~> ((current_co = w /\ pc = "app") \/ Ended)

\* C34: DEAD is absorbing: a DEAD record keeps that status until it is
\* reclaimed; no wake-up makes it RUNNING again
C34_DeadIsAbsorbing ==
    [][\A c \in Ids :
         co[c].status = CO_STATUS_DEAD => co'[c].status \in {CO_STATUS_DEAD, "FREED"}]_vars

\* two records of a free-form program are DEAD while application code runs
C34_Witness ==
    /\ host = "anyHost"
    /\ pc = "app"
    /\ Cardinality({c \in LiveSet : co[c].status = CO_STATUS_DEAD}) = 2

\* C35: the primordial record is never started through the first-run path (no
\* entry function is invoked for it) and never becomes DEAD: until teardown it
\* is RUNNING or WAITING
C35_PrimordialNeverStarted ==
    /\ calls[MAIN] = <<>>
    /\ co[MAIN].status # CO_STATUS_DEAD
    /\ pc # "done" => co[MAIN].status \in {CO_STATUS_RUNNING, CO_STATUS_WAITING}

\* the primordial coroutine was blocked in co_wait and has been resumed, with
\* its target the only other record
C35_Witness ==
    /\ pc = "reclaim"
    /\ current_co = MAIN
    /\ Cardinality(LiveSet) = 2
    /\ calls[target[MAIN]] # <<>>

\* C36: a RUNNING record that is not the current coroutine has a pending saved
\* context: it saved it in a co_yield call (its own, or the one inside its
\* co_wait) that has not returned; so every resume transfer lands in one
C36_RunnableHasContext ==
    \A c \in LiveSet :
        (co[c].status = CO_STATUS_RUNNING /\ c # current_co)
        => ctx[c] \in {"yield", "wait"}

\* a woken waiter has not been given control yet while another coroutine runs
C36_Witness ==
    /\ pc = "app"
    /\ \E c \in LiveSet \ {current_co} :
          /\ co[c].status = CO_STATUS_RUNNING
          /\ ctx[c] = "wait"
          /\ co[target[c]].status = CO_STATUS_DEAD

\* C37: right after co_yield has transferred control to a record, on its first
\* run or by resuming it, the cursor co_queue is on the node of that record
C37_CursorOnCurrent ==
    [][(Scheduled /\ pc' # "exit") => node'[co_queue'].coroutine = current_co']_vars

\* a spawned coroutine has been resumed from its own co_yield and the cursor is
\* on its node
C37_Witness ==
    /\ pc = "app"
    /\ current_co # MAIN
    /\ node[co_queue].coroutine = current_co
    /\ calls[current_co] # <<>>
    /\ apc[current_co] > 2
    /\ co[current_co].func = "yieldOnce"

\* the nodes met following next from node n, n first, until n comes again
RECURSIVE NodesFrom(_, _, _, _)
NodesFrom(nd, n, start_node, k) ==
    IF k = 0 \/ n \notin NodeSet THEN <<>>
    ELSE <<n>> \o (IF nd[n].next = start_node THEN <<>>
                   ELSE NodesFrom(nd, nd[n].next, start_node, k - 1))

\* C38: until teardown the ready queue is a non-empty circular doubly linked
\* list: the cursor is on a node of it, following next from any node visits
\* every node exactly once and comes back to it, and prev is the inverse of next
C38_RingWellFormed ==
    pc # "done"
    => /\ co_queue \in NodeSet
       /\ \A n \in NodeSet :
             /\ node[n].next \in NodeSet /\ node[n].prev \in NodeSet
             /\ node[node[n].next].prev = n
             /\ node[node[n].prev].next = n
             /\ node[n].coroutine \in LiveSet
             /\ LET o == NodesFrom(node, n, n, Cardinality(Ids))
                IN /\ {o[i] : i \in 1..Len(o)} = NodeSet
                   /\ Len(o) = Cardinality(NodeSet)
                   /\ node[o[Len(o)]].next = n

\* nodes have been inserted and removed: two are linked, a lower address is
\* free and the cursor is not on the primordial record's node
C38_Witness ==
    /\ pc = "app"
    /\ Cardinality(NodeSet) = 2
    /\ \E n \in NodeSet, m \in FreeNodeAddrs : m < n
    /\ node[co_queue].coroutine # MAIN

\* the nodes the selection loop (co.c:228-235) examines, in order, when it is
\* entered with the cursor on q and start_node = q; k bounds the iterations
RECURSIVE Examined(_, _, _, _, _)
Examined(cs, nd, q, start_node, k) ==
    LET n == nd[q].next
    IN IF k = 0 THEN <<>>
       ELSE <<n>> \o (IF Eligible(cs, nd[n].coroutine) \/ n = start_node THEN <<>>
                      ELSE Examined(cs, nd, n, start_node, k - 1))

\* C39: the selection scan of co_yield terminates: it examines every node at
\* most once, the node it started from last, and then either transfers control
\* to the first eligible record it met or, having met none, takes the exit path
C39_ScanTerminates ==
    [][Scheduled
       => LET e == Examined(co', node, co_queue, co_queue, Cardinality(Ids) + 1)
              last == e[Len(e)]
          IN /\ Len(e) <= Cardinality(NodeSet)
             /\ \A i, j \in 1..Len(e) : i # j => e[i] # e[j]
             /\ \A i \in 1..(Len(e) - 1) :
                   e[i] # co_queue /\ ~Eligible(co', node[e[i]].coroutine)
             /\ co_queue' = last
             /\ IF Eligible(co', node[last].coroutine)
                THEN pc' # "exit" /\ current_co' = node[last].coroutine
                ELSE /\ pc' = "exit"
                     /\ last = co_queue
                     /\ Len(e) = Cardinality(NodeSet)]_vars

\* the scan went round a ring of three nodes, found no eligible record and the
\* exit path was taken
C39_Witness ==
    /\ pc = "exit"
    /\ co[MAIN].status = CO_STATUS_WAITING
    /\ Cardinality(NodeSet) = 3

====
